---- MODULE Spec2Model ----
(***************************************************************************)
(* Model of the storage package of kvstorage-srv: an in-memory key/value   *)
(* table guarded by one sync.RWMutex, with absolute int64 nanosecond       *)
(* expirations, a background janitor and gob save/load to a file.          *)
(*                                                                         *)
(* Each exported method is split at the points where the sync.RWMutex is   *)
(* taken, so that the callers' steps interleave the way goroutines do.     *)
(***************************************************************************)
EXTENDS Integers, Sequences, FiniteSets, TLC

(* ------------------------------ bounds --------------------------------- *)
\* width of the modelled signed timestamp/duration word (int64 in the code)
IntBits == 4
\* the wall clock advances from 1 up to MaxTime
MaxTime == 3
\* number of calls (the janitor's sweeps included) in a run of the cache operations
MaxOps == 2
\* number of calls in a run of the save/load operations
MaxFileOps == 3

Threads == {"t1", "t2"}
Keys == {"a", "b"}
Values == {"x", "y"}
\* each caller stores a value of its own: the table shows whose write it holds
ValueOf(p) == IF p = "t1" THEN "x" ELSE "y"
Nil == "nil"
NoKey == "-"

(* --------------------------- int64 arithmetic -------------------------- *)
Half == 2 ^ (IntBits - 1)
Full == 2 * Half
MaxInt == Half - 1
\* two's complement wrap-around of a sum, as Go's int64 arithmetic does
Wrap(x) == ((x + Half) % Full) - Half

(* ------------------- constants of the storage package ------------------ *)
NoExpiration == -1
DefaultExpiration == 0
\* the largest time.Duration
MaxDuration == MaxInt
\* durations the callers pass: never, default, short, and the largest one
Durations == {NoExpiration, DefaultExpiration, 1, MaxDuration}
\* defaultExpiration arguments given to New
DefaultTTLs == {0, 2}
\* durations passed in the runs of the save/load operations
FileDurations == {DefaultExpiration, MaxDuration}

\* the key and the durations of the calls in the runs of all operations together
LockKeys == {"a"}
LockDurations == {DefaultExpiration, 1}

EmptyMap == [k \in {} |-> 0]
Item(v, e) == [Object |-> v, Expiration |-> e]

(* ------------------------------- state --------------------------------- *)
VARIABLES
    items,              \* Storage.items : map[string]Item
    defaultExpiration,  \* Storage.defaultExpiration
    mu,                 \* Storage.mu : [w : holder of Lock, r : holders of RLock]
    clock,              \* time.Now().UnixNano()
    file,               \* the file named by SaveFile/LoadFile
    th,                 \* per caller goroutine: position, arguments, locals, results
    jan,                \* the janitor goroutine
    nops,               \* calls that may still be started
    wr,                 \* history: per key, clock reading and duration of its last Set/Add
    race,               \* history: per key, Add outcomes since the key was last known absent
    saved,              \* history: the snapshot the last Save encoded into the file,
                        \*          and the instant Items took it at
    stop,               \* janitor.stop, an unbuffered channel: the state of its sender
    ref                 \* the owner's reference to the Storage, and the collector's view

vars == <<items, defaultExpiration, mu, clock, file, th, jan, nops, wr, race, saved,
          stop, ref>>

Idle0 ==
    [pc |-> "idle", op |-> "none", key |-> NoKey, value |-> Nil, duration |-> 0,
     exp |-> 0, now |-> 0, m |-> EmptyMap, ok |-> FALSE, val |-> Nil, n |-> 0]

NoWrite == [set |-> FALSE, t |-> 0, d |-> 0]
NoRace == [valid |-> TRUE, ok |-> 0, err |-> 0, by |-> ""]
OffRace == [valid |-> FALSE, ok |-> 0, err |-> 0, by |-> ""]
NoFile == [exists |-> FALSE, bytes |-> <<>>]
NoSave == [m |-> EmptyMap, at |-> 0]
NoLock == [w |-> "", r |-> {}]
Held == [held |-> TRUE, gc |-> FALSE]

(* --------------------------- pure functions ---------------------------- *)
\* Set/set lines 45-51 and 64-70: the expiration stored for a duration
ExpiryNoDefault(duration, de, now) ==
    IF duration > 0 THEN Wrap(now + duration) ELSE 0
Expiry(duration, de, now) ==
    LET d == IF duration = DefaultExpiration THEN de ELSE duration
    IN  IF d > 0 THEN Wrap(now + d) ELSE 0

\* the duration Set/set use after the substitution of lines 45-47 and 64-66
Effective(duration, de) == IF duration = DefaultExpiration THEN de ELSE duration

\* Item.Expired, lines 21-27
ItemExpired(item, now) ==
    IF item.Expiration = 0 THEN FALSE ELSE now > item.Expiration

\* the inline test of Get, line 111
GetPastInclusive(item, now) == item.Expiration > 0 /\ now >= item.Expiration
GetPast(item, now) == item.Expiration > 0 /\ now > item.Expiration

\* newStorage lines 185-187
NewDefault(de) == IF de = 0 THEN NoExpiration ELSE de

MapPutIfAbsent(m, k, e) ==
    [x \in DOMAIN m \cup {k} |-> IF x \in DOMAIN m THEN m[x] ELSE e]
MapPut(m, k, e) == [x \in DOMAIN m \cup {k} |-> IF x = k THEN e ELSE m[x]]
MapDelNothing(m, k) == m
MapDel(m, k) == [x \in DOMAIN m \ {k} |-> m[x]]

\* Items lines 123-131: the copy without the entries past their expiration
Snapshot(tbl, now) ==
    [k \in {x \in DOMAIN tbl : ~(tbl[x].Expiration > 0 /\ now > tbl[x].Expiration)}
        |-> tbl[k]]

\* DeleteExpired lines 144-148
Sweep(tbl, now) ==
    [k \in {x \in DOMAIN tbl : ~(tbl[x].Expiration > 0 /\ now > tbl[x].Expiration)}
        |-> tbl[k]]

\* Load lines 243-245: every decoded entry is stored over the table
MergeReplace(tbl, loaded) == loaded
MergeKeepLive(tbl, loaded) ==
    [k \in DOMAIN tbl \cup DOMAIN loaded |-> IF k \in DOMAIN tbl THEN tbl[k] ELSE loaded[k]]
Merge(tbl, loaded) ==
    [k \in DOMAIN tbl \cup DOMAIN loaded |-> IF k \in DOMAIN loaded THEN loaded[k] ELSE tbl[k]]

(* ------------------------------ gob codec ------------------------------ *)
GobHeader == <<"gob">>

\* one map element on the stream; gob leaves a zero-valued field out
EncodeEntry(k, item) ==
    IF item.Expiration = 0 THEN <<k, item.Object>> ELSE <<k, item.Object, item.Expiration>>

\* the orders in which the map may be ranged over
Orders(m) ==
    {s \in [1 .. Cardinality(DOMAIN m) -> DOMAIN m] :
        \A i, j \in DOMAIN s : i # j => s[i] # s[j]}

\* Save line 219: the stream written for snapshot m ranged over in order s
Encode(m, s) ==
    <<GobHeader>> \o [i \in 1 .. Len(s) |-> EncodeEntry(s[i], m[s[i]])]

\* Load line 239: an empty or foreign stream does not decode, nor does one that
\* ends inside an entry
DecodeFailsAtHeader(bytes) == Len(bytes) = 0 \/ bytes[1] # GobHeader
DecodeFails(bytes) ==
    \/ Len(bytes) = 0
    \/ bytes[1] # GobHeader
    \/ \E i \in 2 .. Len(bytes) : Len(bytes[i]) < 2

DecodeEntry(tok) ==
    Item(tok[2], IF Len(tok) >= 3 THEN tok[3] ELSE 0)

RECURSIVE DecodeFrom(_, _, _)
DecodeFrom(bytes, i, acc) ==
    IF i > Len(bytes) \/ Len(bytes[i]) < 2 THEN acc
    ELSE DecodeFrom(bytes, i + 1, MapPut(acc, bytes[i][1], DecodeEntry(bytes[i])))

\* the local map of Load line 238 after Decode: the entries read up to the end of
\* the stream or up to the point where decoding failed
Decode(bytes) == DecodeFrom(bytes, 2, EmptyMap)

(* ------------------------------ the lock ------------------------------- *)
\* sync.RWMutex: Lock waits for the writer and all readers, RLock for the writer
NeverBlocks == TRUE
CanLock == mu.w = "" /\ mu.r = {}
RLockPastWriter == TRUE
CanRLock == mu.w = ""

\* the history kept per key once the key is removed from the table
Removed(old, new, h, fresh) == [k \in Keys |-> IF k \in DOMAIN old /\ k \notin DOMAIN new
                                               THEN fresh ELSE h[k]]

\* New(de, ci, size), lines 183-209
InitStorage(de, ci, f, sv) ==
    /\ items = EmptyMap
    /\ defaultExpiration = NewDefault(de)
    /\ mu = NoLock
    /\ clock = 1
    /\ file = f
    /\ th = [p \in Threads |-> Idle0]
    /\ jan = [pc |-> IF ci > 0 THEN "wait" ELSE "none", now |-> 0]
    /\ wr = [k \in Keys |-> NoWrite]
    /\ race = [k \in Keys |-> NoRace]
    /\ saved = sv
    /\ stop = "idle"
    /\ ref = Held

\* a cache with a default TTL and a janitor, as api.Start builds it
Init == \E de \in DefaultTTLs \ {0} : InitStorage(de, 1, NoFile, NoSave) /\ nops = MaxOps
\* a cache without janitor, as the tests of SaveFile/LoadFile build it
\* there is no file yet, or the file an earlier run of the process saved at instant 1
OldSave == [m |-> [k \in {"a"} |-> Item("y", 2)], at |-> 1]
OldFile == [exists |-> TRUE, bytes |-> Encode(OldSave.m, <<"a">>)]
InitFile ==
    /\ \/ InitStorage(DefaultExpiration, 0, NoFile, NoSave)
       \/ InitStorage(DefaultExpiration, 0, OldFile, OldSave)
    /\ nops = MaxFileOps

CanCall(p) == th[p].pc = "idle" /\ nops > 0 /\ ref.held

\* the caller's record while a call is in progress, and after it returned
Enter(pc, op, k, v, d) ==
    [Idle0 EXCEPT !.pc = pc, !.op = op, !.key = k, !.value = v, !.duration = d]
Return(t, ok, val) ==
    [Idle0 EXCEPT !.op = t.op, !.key = t.key, !.ok = ok, !.val = val]

\* time passes
Tick ==
    /\ clock < MaxTime
    /\ clock' = clock + 1
    /\ UNCHANGED <<items, defaultExpiration, mu, file, th, jan, nops, wr, race, saved, stop, ref>>

(* -------------------------------- Set ---------------------------------- *)
\* lines 44-51: the expiration is computed before the lock is taken
CallSet(p, k, v, d) ==
    /\ CanCall(p)
    /\ th' = [th EXCEPT ![p] = [Enter("Set_lock", "Set", k, v, d) EXCEPT
                                 !.now = clock,
                                 !.exp = Expiry(d, defaultExpiration, clock)]]
    /\ nops' = nops - 1
    /\ UNCHANGED <<items, defaultExpiration, mu, clock, file, jan, wr, race, saved, stop, ref>>

\* line 53
SetLock(p) ==
    /\ th[p].pc = "Set_lock"
    /\ CanLock
    /\ mu' = [mu EXCEPT !.w = p]
    /\ th' = [th EXCEPT ![p].pc = "Set_cs"]
    /\ UNCHANGED <<items, defaultExpiration, clock, file, jan, nops, wr, race, saved, stop, ref>>

\* lines 55-60
SetStore(p) ==
    /\ th[p].pc = "Set_cs"
    /\ items' = MapPut(items, th[p].key, Item(th[p].value, th[p].exp))
    /\ mu' = [mu EXCEPT !.w = ""]
    /\ th' = [th EXCEPT ![p] = Return(th[p], TRUE, th[p].value)]
    /\ wr' = [wr EXCEPT ![th[p].key] =
                 [set |-> TRUE, t |-> th[p].now,
                  d |-> Effective(th[p].duration, defaultExpiration)]]
    /\ race' = [race EXCEPT ![th[p].key] = OffRace]
    /\ UNCHANGED <<defaultExpiration, clock, file, jan, nops, saved, stop, ref>>

(* -------------------------------- Add ---------------------------------- *)
\* line 79: the call returns from Lock once no one holds the mutex
AddLock(p, k, v, d) ==
    /\ CanCall(p)
    /\ CanLock
    /\ mu' = [mu EXCEPT !.w = p]
    /\ th' = [th EXCEPT ![p] = Enter("Add_cs", "Add", k, v, d)]
    /\ nops' = nops - 1
    /\ UNCHANGED <<items, defaultExpiration, clock, file, jan, wr, race, saved, stop, ref>>

\* line 80: the existence test of Add
AddFoundIfLive(tbl, k, now) == k \in DOMAIN tbl /\ ~GetPast(tbl[k], now)
AddFound(tbl, k, now) == k \in DOMAIN tbl

\* lines 80-84
AddCheckKeepsLock(p) ==
    /\ th[p].pc = "Add_cs"
    /\ IF AddFound(items, th[p].key, clock)
       THEN /\ th' = [th EXCEPT ![p] = Return(th[p], FALSE, th[p].value)]
            /\ race' = [race EXCEPT ![th[p].key].err =
                           IF race[th[p].key].valid THEN @ + 1 ELSE @]
       ELSE /\ th' = [th EXCEPT ![p].pc = "Add_set"]
            /\ UNCHANGED race
    /\ UNCHANGED <<items, defaultExpiration, mu, clock, file, jan, nops, wr, saved, stop, ref>>
AddCheck(p) ==
    /\ th[p].pc = "Add_cs"
    /\ IF AddFound(items, th[p].key, clock)
       THEN /\ mu' = [mu EXCEPT !.w = ""]
            /\ th' = [th EXCEPT ![p] = Return(th[p], FALSE, th[p].value)]
            /\ race' = [race EXCEPT ![th[p].key].err =
                           IF race[th[p].key].valid THEN @ + 1 ELSE @]
       ELSE /\ th' = [th EXCEPT ![p].pc = "Add_set"]
            /\ UNCHANGED <<mu, race, stop, ref>>
    /\ UNCHANGED <<items, defaultExpiration, clock, file, jan, nops, wr, saved, stop, ref>>

\* lines 86-88, with set lines 63-76
AddSet(p) ==
    /\ th[p].pc = "Add_set"
    /\ items' = MapPut(items, th[p].key,
                       Item(th[p].value, Expiry(th[p].duration, defaultExpiration, clock)))
    /\ mu' = [mu EXCEPT !.w = ""]
    /\ th' = [th EXCEPT ![p] = Return(th[p], TRUE, th[p].value)]
    /\ wr' = [wr EXCEPT ![th[p].key] =
                 [set |-> TRUE, t |-> clock,
                  d |-> Effective(th[p].duration, defaultExpiration)]]
    /\ race' = [race EXCEPT ![th[p].key] =
                   IF @.valid THEN [@ EXCEPT !.ok = @ + 1, !.by = p] ELSE @]
    /\ UNCHANGED <<defaultExpiration, clock, file, jan, nops, saved, stop, ref>>

(* ------------------------------- Delete -------------------------------- *)
\* line 92
DeleteLock(p, k) ==
    /\ CanCall(p)
    /\ CanLock
    /\ mu' = [mu EXCEPT !.w = p]
    /\ th' = [th EXCEPT ![p] = Enter("Delete_cs", "Delete", k, Nil, 0)]
    /\ nops' = nops - 1
    /\ UNCHANGED <<items, defaultExpiration, clock, file, jan, wr, race, saved, stop, ref>>

\* lines 95-99 and the deferred Unlock
DeleteBody(p) ==
    /\ th[p].pc = "Delete_cs"
    /\ items' = MapDel(items, th[p].key)
    /\ mu' = [mu EXCEPT !.w = ""]
    /\ th' = [th EXCEPT ![p] = Return(th[p], th[p].key \in DOMAIN items, Nil)]
    /\ wr' = [wr EXCEPT ![th[p].key] = NoWrite]
    /\ race' = Removed(items, items', race, NoRace)
    /\ UNCHANGED <<defaultExpiration, clock, file, jan, nops, saved, stop, ref>>

(* --------------------------------- Get --------------------------------- *)
\* line 103
GetRLock(p, k) ==
    /\ CanCall(p)
    /\ CanRLock
    /\ mu' = [mu EXCEPT !.r = @ \cup {p}]
    /\ th' = [th EXCEPT ![p] = Enter("Get_cs", "Get", k, Nil, 0)]
    /\ nops' = nops - 1
    /\ UNCHANGED <<items, defaultExpiration, clock, file, jan, wr, race, saved, stop, ref>>

\* lines 105-117: what Get returns for key k of table tbl at instant now
GetResult(tbl, k, now) ==
    IF k \notin DOMAIN tbl THEN [found |-> FALSE, value |-> Nil]
    ELSE IF GetPast(tbl[k], now) THEN [found |-> FALSE, value |-> Nil]
    ELSE [found |-> TRUE, value |-> tbl[k].Object]

\* lines 105-117
GetBody(p) ==
    /\ th[p].pc = "Get_cs"
    /\ LET r == GetResult(items, th[p].key, clock)
       IN  th' = [th EXCEPT ![p] = [Return(th[p], r.found, r.value) EXCEPT !.now = clock]]
    /\ mu' = [mu EXCEPT !.r = @ \ {p}]
    /\ UNCHANGED <<items, defaultExpiration, clock, file, jan, nops, wr, race, saved, stop, ref>>

(* -------------------------------- Items -------------------------------- *)
\* line 121
ItemsRLock(p) ==
    /\ CanCall(p)
    /\ CanRLock
    /\ mu' = [mu EXCEPT !.r = @ \cup {p}]
    /\ th' = [th EXCEPT ![p] = Enter("Items_cs", "Items", NoKey, Nil, 0)]
    /\ nops' = nops - 1
    /\ UNCHANGED <<items, defaultExpiration, clock, file, jan, wr, race, saved, stop, ref>>

\* lines 123-131 and the deferred RUnlock
ItemsBody(p) ==
    /\ th[p].pc = "Items_cs"
    /\ th' = [th EXCEPT ![p] = [Return(th[p], TRUE, Nil) EXCEPT
                                 !.m = Snapshot(items, clock), !.now = clock]]
    /\ mu' = [mu EXCEPT !.r = @ \ {p}]
    /\ UNCHANGED <<items, defaultExpiration, clock, file, jan, nops, wr, race, saved, stop, ref>>

(* ------------------------------ ItemCount ------------------------------ *)
\* line 135
ItemCountRLock(p) ==
    /\ CanCall(p)
    /\ CanRLock
    /\ mu' = [mu EXCEPT !.r = @ \cup {p}]
    /\ th' = [th EXCEPT ![p] = Enter("Count_cs", "ItemCount", NoKey, Nil, 0)]
    /\ nops' = nops - 1
    /\ UNCHANGED <<items, defaultExpiration, clock, file, jan, wr, race, saved, stop, ref>>

\* line 136: len(s.items)
CountLive(tbl, now) == Cardinality({k \in DOMAIN tbl : ~GetPast(tbl[k], now)})
Count(tbl, now) == Cardinality(DOMAIN tbl)

\* lines 136-138
ItemCountBody(p) ==
    /\ th[p].pc = "Count_cs"
    /\ th' = [th EXCEPT ![p] = [Return(th[p], TRUE, Nil) EXCEPT !.n = Count(items, clock),
                                                           !.now = clock]]
    /\ mu' = [mu EXCEPT !.r = @ \ {p}]
    /\ UNCHANGED <<items, defaultExpiration, clock, file, jan, nops, wr, race, saved, stop, ref>>

(* ---------------------------- DeleteExpired ---------------------------- *)
\* line 142: the scan's instant is read before the lock is taken
CallDeleteExpired(p) ==
    /\ CanCall(p)
    /\ th' = [th EXCEPT ![p] =
                 [Enter("Sweep_lock", "DeleteExpired", NoKey, Nil, 0) EXCEPT !.now = clock]]
    /\ nops' = nops - 1
    /\ UNCHANGED <<items, defaultExpiration, mu, clock, file, jan, wr, race, saved, stop, ref>>

\* line 143
DeleteExpiredLock(p) ==
    /\ th[p].pc = "Sweep_lock"
    /\ CanLock
    /\ mu' = [mu EXCEPT !.w = p]
    /\ th' = [th EXCEPT ![p].pc = "Sweep_cs"]
    /\ UNCHANGED <<items, defaultExpiration, clock, file, jan, nops, wr, race, saved, stop, ref>>

\* lines 144-149
DeleteExpiredSweep(p) ==
    /\ th[p].pc = "Sweep_cs"
    /\ items' = Sweep(items, th[p].now)
    /\ mu' = [mu EXCEPT !.w = ""]
    /\ th' = [th EXCEPT ![p] = Return(th[p], TRUE, Nil)]
    /\ race' = Removed(items, items', race, NoRace)
    /\ UNCHANGED <<defaultExpiration, clock, file, jan, nops, wr, saved, stop, ref>>

(* ------------------------------- janitor ------------------------------- *)
\* Run lines 161-162: a tick of the ticker starts DeleteExpired (line 142)
JanitorTick ==
    /\ jan.pc = "wait"
    /\ nops > 0
    /\ nops' = nops - 1
    /\ jan' = [pc |-> "lock", now |-> clock]
    /\ UNCHANGED <<items, defaultExpiration, mu, clock, file, th, wr, race, saved, stop, ref>>

\* Run lines 160-165: the select takes a case that is ready. The tick case calls
\* DeleteExpired, which reads the clock (line 142); the stop case, ready while a
\* sender waits on the unbuffered channel, releases the sender, stops the ticker
\* and returns
JanitorSelectGoesOn ==
    /\ jan.pc = "wait"
    /\ \E c \in {"tick"} \cup (IF stop = "sending" THEN {"stop"} ELSE {}) :
          /\ jan' = IF c = "tick" THEN [pc |-> "lock", now |-> clock] ELSE jan
          /\ stop' = IF c = "stop" THEN "returned" ELSE stop
    /\ UNCHANGED <<items, defaultExpiration, mu, clock, file, th, nops, wr, race, saved, ref>>
JanitorSelect ==
    /\ jan.pc = "wait"
    /\ \E c \in {"tick"} \cup (IF stop = "sending" THEN {"stop"} ELSE {}) :
          /\ jan' = IF c = "tick" THEN [pc |-> "lock", now |-> clock]
                                 ELSE [pc |-> "stopped", now |-> 0]
          /\ stop' = IF c = "stop" THEN "returned" ELSE stop
    /\ UNCHANGED <<items, defaultExpiration, mu, clock, file, th, nops, wr, race, saved, ref>>

\* line 143
JanitorLock ==
    /\ jan.pc = "lock"
    /\ CanLock
    /\ mu' = [mu EXCEPT !.w = "janitor"]
    /\ jan' = [jan EXCEPT !.pc = "cs"]
    /\ UNCHANGED <<items, defaultExpiration, clock, file, th, nops, wr, race, saved, stop, ref>>

\* lines 144-149, back to the select of line 160
JanitorSweep ==
    /\ jan.pc = "cs"
    /\ items' = Sweep(items, jan.now)
    /\ mu' = [mu EXCEPT !.w = ""]
    /\ jan' = [pc |-> "wait", now |-> 0]
    /\ race' = Removed(items, items', race, NoRace)
    /\ UNCHANGED <<defaultExpiration, clock, file, th, nops, wr, saved, stop, ref>>

(* ------------------------------ SaveFile ------------------------------- *)
\* SaveFile line 224: os.Create truncates the file; Save line 212
CallSaveFile(p) ==
    /\ CanCall(p)
    /\ file' = [exists |-> TRUE, bytes |-> <<>>]
    /\ th' = [th EXCEPT ![p] = Enter("Save_rlock", "SaveFile", NoKey, Nil, 0)]
    /\ nops' = nops - 1
    /\ UNCHANGED <<items, defaultExpiration, mu, clock, jan, wr, race, saved, stop, ref>>

\* Save line 213 -> Items line 121
SaveItemsRLock(p) ==
    /\ th[p].pc = "Save_rlock"
    /\ CanRLock
    /\ mu' = [mu EXCEPT !.r = @ \cup {p}]
    /\ th' = [th EXCEPT ![p].pc = "Save_items"]
    /\ UNCHANGED <<items, defaultExpiration, clock, file, jan, nops, wr, race, saved, stop, ref>>

\* Save line 213 -> Items lines 123-131
SaveItems(p) ==
    /\ th[p].pc = "Save_items"
    /\ th' = [th EXCEPT ![p].pc = "Save_rlock2", ![p].m = Snapshot(items, clock),
                        ![p].now = clock]
    /\ mu' = [mu EXCEPT !.r = @ \ {p}]
    /\ UNCHANGED <<items, defaultExpiration, clock, file, jan, nops, wr, race, saved, stop, ref>>

\* Save line 214
SaveRLock(p) ==
    /\ th[p].pc = "Save_rlock2"
    /\ CanRLock
    /\ mu' = [mu EXCEPT !.r = @ \cup {p}]
    /\ th' = [th EXCEPT ![p].pc = "Save_enc"]
    /\ UNCHANGED <<items, defaultExpiration, clock, file, jan, nops, wr, race, saved, stop, ref>>

\* Save lines 216-220, SaveFile line 233
SaveEncode(p) ==
    /\ th[p].pc = "Save_enc"
    /\ \E s \in Orders(th[p].m) :
          file' = [exists |-> TRUE, bytes |-> Encode(th[p].m, s)]
    /\ saved' = [m |-> th[p].m, at |-> th[p].now]
    /\ mu' = [mu EXCEPT !.r = @ \ {p}]
    /\ th' = [th EXCEPT ![p] = Return(th[p], TRUE, Nil)]
    /\ UNCHANGED <<items, defaultExpiration, clock, jan, nops, wr, race, stop, ref>>

(* ------------------------------ LoadFile ------------------------------- *)
\* LoadFile lines 251-254 and 255-259, Load lines 237-239:
\* a missing file and a stream that does not decode are returned as errors
CallLoadFile(p) ==
    /\ CanCall(p)
    /\ IF ~file.exists \/ DecodeFails(file.bytes)
       THEN th' = [th EXCEPT ![p] = Return(Enter("idle", "LoadFile", NoKey, Nil, 0), FALSE, Nil)]
       ELSE th' = [th EXCEPT ![p] =
                      [Enter("Load_lock", "LoadFile", NoKey, Nil, 0) EXCEPT
                          !.m = Decode(file.bytes)]]
    /\ nops' = nops - 1
    /\ UNCHANGED <<items, defaultExpiration, mu, clock, file, jan, wr, race, saved, stop, ref>>

\* Load line 241
LoadLock(p) ==
    /\ th[p].pc = "Load_lock"
    /\ CanLock
    /\ mu' = [mu EXCEPT !.w = p]
    /\ th' = [th EXCEPT ![p].pc = "Load_cs"]
    /\ UNCHANGED <<items, defaultExpiration, clock, file, jan, nops, wr, race, saved, stop, ref>>

\* Load lines 243-247
LoadMerge(p) ==
    /\ th[p].pc = "Load_cs"
    /\ items' = Merge(items, th[p].m)
    /\ mu' = [mu EXCEPT !.w = ""]
    /\ th' = [th EXCEPT ![p] = [Return(th[p], TRUE, Nil) EXCEPT !.m = th[p].m]]
    /\ wr' = [k \in Keys |-> IF k \in DOMAIN th[p].m THEN NoWrite ELSE wr[k]]
    /\ race' = [k \in Keys |-> IF k \in DOMAIN th[p].m THEN OffRace ELSE race[k]]
    /\ UNCHANGED <<defaultExpiration, clock, file, jan, nops, saved, stop, ref>>

(* ------------------------------- restart ------------------------------- *)
\* the process ends and api.Start builds a new, empty Storage (New, lines 206-209);
\* the file stays
Start ==
    /\ items # EmptyMap
    /\ items' = EmptyMap
    /\ mu' = NoLock
    /\ th' = [p \in Threads |-> Idle0]
    /\ jan' = [pc |-> IF jan.pc = "none" THEN "none" ELSE "wait", now |-> 0]
    /\ wr' = [k \in Keys |-> NoWrite]
    /\ race' = [k \in Keys |-> NoRace]
    /\ UNCHANGED <<defaultExpiration, clock, file, nops, saved, stop, ref>>

NextCache ==
    \/ Tick
    \/ \E p \in Threads, k \in Keys, d \in Durations : CallSet(p, k, ValueOf(p), d)
    \/ \E p \in Threads : SetLock(p)
    \/ \E p \in Threads : SetStore(p)
    \/ \E p \in Threads, k \in Keys, d \in Durations : AddLock(p, k, ValueOf(p), d)
    \/ \E p \in Threads : AddCheck(p)
    \/ \E p \in Threads : AddSet(p)
    \/ \E p \in Threads, k \in Keys : DeleteLock(p, k)
    \/ \E p \in Threads : DeleteBody(p)
    \/ \E p \in Threads, k \in Keys : GetRLock(p, k)
    \/ \E p \in Threads : GetBody(p)
    \/ \E p \in Threads : ItemsRLock(p)
    \/ \E p \in Threads : ItemsBody(p)
    \/ \E p \in Threads : ItemCountRLock(p)
    \/ \E p \in Threads : ItemCountBody(p)
    \/ \E p \in Threads : CallDeleteExpired(p)
    \/ \E p \in Threads : DeleteExpiredLock(p)
    \/ \E p \in Threads : DeleteExpiredSweep(p)
    \/ JanitorTick
    \/ JanitorLock
    \/ JanitorSweep

NextFile ==
    \/ Tick
    \/ \E p \in Threads, k \in Keys, d \in FileDurations : CallSet(p, k, ValueOf(p), d)
    \/ \E p \in Threads : SetLock(p)
    \/ \E p \in Threads : SetStore(p)
    \/ \E p \in Threads : CallSaveFile(p)
    \/ \E p \in Threads : SaveItemsRLock(p)
    \/ \E p \in Threads : SaveItems(p)
    \/ \E p \in Threads : SaveRLock(p)
    \/ \E p \in Threads : SaveEncode(p)
    \/ \E p \in Threads : CallLoadFile(p)
    \/ \E p \in Threads : LoadLock(p)
    \/ \E p \in Threads : LoadMerge(p)
    \/ Start

Spec == Init /\ [][NextCache]_vars
SpecFile == InitFile /\ [][NextFile]_vars

(* ----------------------- Set and Add, every duration -------------------- *)
\* durations the callers pass, one below the never-expire constant included
AnyDurations == Durations \cup {NoExpiration - 1}
\* defaultExpiration arguments given to New, a negative one included
AnyDefaultTTLs == DefaultTTLs \cup {NoExpiration - 1}

\* a cache without janitor
InitTTL ==
    /\ \E de \in AnyDefaultTTLs : InitStorage(de, 0, NoFile, NoSave)
    /\ nops = MaxOps

NextTTL ==
    \/ Tick
    \/ \E p \in Threads, k \in LockKeys, d \in AnyDurations : CallSet(p, k, ValueOf(p), d)
    \/ \E p \in Threads : SetLock(p)
    \/ \E p \in Threads : SetStore(p)
    \/ \E p \in Threads, k \in LockKeys, d \in AnyDurations : AddLock(p, k, ValueOf(p), d)
    \/ \E p \in Threads : AddCheck(p)
    \/ \E p \in Threads : AddSet(p)
    \/ \E p \in Threads, k \in LockKeys : DeleteLock(p, k)
    \/ \E p \in Threads : DeleteBody(p)

SpecTTL == InitTTL /\ [][NextTTL]_vars

(* ------------------------ loading a damaged file ------------------------ *)
\* a file that ends inside its second entry, and a file that is no gob stream
CutFile == [exists |-> TRUE, bytes |-> <<GobHeader, <<"a", "y", 2>>, <<"b">>>>]
ForeignFile == [exists |-> TRUE, bytes |-> <<<<"text">>>>]

\* a cache without janitor; the file is absent, damaged, or the one of an earlier run
InitLoad ==
    /\ \/ \E f \in {NoFile, CutFile, ForeignFile} :
             InitStorage(DefaultExpiration, 0, f, NoSave)
       \/ InitStorage(DefaultExpiration, 0, OldFile, OldSave)
    /\ nops = MaxOps

NextLoad ==
    \/ \E p \in Threads, k \in Keys, d \in LockDurations : CallSet(p, k, ValueOf(p), d)
    \/ \E p \in Threads : SetLock(p)
    \/ \E p \in Threads : SetStore(p)
    \/ \E p \in Threads : CallSaveFile(p)
    \/ \E p \in Threads : SaveItemsRLock(p)
    \/ \E p \in Threads : SaveItems(p)
    \/ \E p \in Threads : SaveRLock(p)
    \/ \E p \in Threads : SaveEncode(p)
    \/ \E p \in Threads : CallLoadFile(p)
    \/ \E p \in Threads : LoadLock(p)
    \/ \E p \in Threads : LoadMerge(p)

SpecLoad == InitLoad /\ [][NextLoad]_vars

(* --------------------------- stopping the janitor ----------------------- *)
\* stopJanitor line 171: the send on the unbuffered channel blocks until the
\* janitor receives
StopSend ==
    /\ jan.pc # "none"
    /\ stop = "idle"
    /\ stop' = "sending"
    /\ UNCHANGED <<items, defaultExpiration, mu, clock, file, th, jan, nops, wr, race, saved,
                   ref>>

\* a cache with a janitor
InitJanitor ==
    /\ \E de \in DefaultTTLs : InitStorage(de, 1, NoFile, NoSave)
    /\ nops = MaxOps

NextJanitor ==
    \/ Tick
    \/ \E p \in Threads, k \in Keys, d \in LockDurations : CallSet(p, k, ValueOf(p), d)
    \/ \E p \in Threads : SetLock(p)
    \/ \E p \in Threads : SetStore(p)
    \/ JanitorSelect
    \/ JanitorLock
    \/ JanitorSweep
    \/ StopSend

SpecJanitor == InitJanitor /\ [][NextJanitor]_vars

(* ------------------ all operations, under fair scheduling --------------- *)

\* a cache with a janitor and the file of an earlier run; every caller goroutine
\* makes one call
InitLock ==
    /\ InitStorage(DefaultExpiration, 1, OldFile, OldSave)
    /\ nops = Cardinality(Threads)

\* the steps in which caller p waits for the mutex
LockStep(p) ==
    \/ SetLock(p) \/ DeleteExpiredLock(p) \/ LoadLock(p)
    \/ SaveItemsRLock(p) \/ SaveRLock(p)

\* the steps caller p takes holding the mutex, up to its release
BodyStep(p) ==
    \/ SetStore(p) \/ AddCheck(p) \/ AddSet(p) \/ DeleteBody(p) \/ GetBody(p)
    \/ ItemsBody(p) \/ ItemCountBody(p) \/ DeleteExpiredSweep(p)
    \/ SaveItems(p) \/ SaveEncode(p) \/ LoadMerge(p)

NextLock ==
    \/ Tick
    \/ \E p \in Threads, k \in LockKeys, d \in LockDurations : CallSet(p, k, ValueOf(p), d)
    \/ \E p \in Threads, k \in LockKeys, d \in LockDurations : AddLock(p, k, ValueOf(p), d)
    \/ \E p \in Threads, k \in LockKeys : DeleteLock(p, k)
    \/ \E p \in Threads, k \in LockKeys : GetRLock(p, k)
    \/ \E p \in Threads : ItemsRLock(p)
    \/ \E p \in Threads : ItemCountRLock(p)
    \/ \E p \in Threads : CallDeleteExpired(p)
    \/ \E p \in Threads : CallSaveFile(p)
    \/ \E p \in Threads : CallLoadFile(p)
    \/ \E p \in Threads : LockStep(p)
    \/ \E p \in Threads : BodyStep(p)
    \/ JanitorSelect
    \/ JanitorLock
    \/ JanitorSweep

\* a goroutine that can run does run; sync.RWMutex hands the mutex to a waiter
\* that can take it again and again (a waiting writer holds back new readers, and
\* sync.Mutex has a starvation mode)
FairLock ==
    /\ \A p \in Threads : WF_vars(BodyStep(p)) /\ SF_vars(LockStep(p))
    /\ WF_vars(JanitorSweep) /\ SF_vars(JanitorLock) /\ WF_vars(JanitorSelect)

SpecLock == InitLock /\ [][NextLock]_vars /\ FairLock

(* ---------------------- the end of a Storage's life --------------------- *)
\* the owner drops its last reference to the Storage
Discard ==
    /\ ref.held
    /\ \A p \in Threads : th[p].pc = "idle"
    /\ ref' = [ref EXCEPT !.held = FALSE]
    /\ UNCHANGED <<items, defaultExpiration, mu, clock, file, th, jan, nops, wr, race, saved,
                   stop>>

\* the Storage is referenced by its owner, and by the goroutine of Run (the
\* argument s of line 157, started at line 180) for as long as that runs
Reachable == ref.held \/ jan.pc \in {"wait", "lock", "cs"}

\* a garbage collection: the finalizer set at line 201 is run, and calls
\* stopJanitor, once the Storage is not reachable
Collect ==
    /\ ~ref.held
    /\ ref' = [ref EXCEPT !.gc = TRUE]
    /\ IF ~Reachable /\ jan.pc # "none" /\ stop = "idle"
       THEN stop' = "sending"
       ELSE UNCHANGED stop
    /\ UNCHANGED <<items, defaultExpiration, mu, clock, file, th, jan, nops, wr, race, saved>>

\* the callers go on calling for as long as the Storage is held
CallAgain ==
    /\ ref.held
    /\ nops = 0
    /\ nops' = Cardinality(Threads)
    /\ UNCHANGED <<items, defaultExpiration, mu, clock, file, th, jan, wr, race, saved,
                   stop, ref>>

\* durations of the calls in these runs
LifeDurations == {1, MaxDuration}

\* a cache with a janitor or without
InitLife ==
    /\ \E ci \in {0, 1} : InitStorage(DefaultExpiration, ci, NoFile, NoSave)
    /\ nops = Cardinality(Threads)

NextLife ==
    \/ Tick
    \/ \E p \in Threads, k \in LockKeys, d \in LifeDurations : CallSet(p, k, ValueOf(p), d)
    \/ \E p \in Threads, k \in LockKeys : DeleteLock(p, k)
    \/ \E p \in Threads : SetLock(p)
    \/ \E p \in Threads : SetStore(p)
    \/ \E p \in Threads : DeleteBody(p)
    \/ \E p \in Threads : CallDeleteExpired(p)
    \/ \E p \in Threads : DeleteExpiredLock(p)
    \/ \E p \in Threads : DeleteExpiredSweep(p)
    \/ CallAgain
    \/ JanitorSelect
    \/ JanitorLock
    \/ JanitorSweep
    \/ Discard
    \/ Collect

\* as FairLock; the collector runs in the end
FairLife == FairLock /\ WF_vars(Collect)

SpecLife == InitLife /\ [][NextLife]_vars /\ FairLife

(* ======================================================================= *)
(* Properties                                                              *)
(* ======================================================================= *)

\* the step in which caller p leaves position pc by returning from its call
Returns(p, pc) == th[p].pc = pc /\ th'[p].pc = "idle" /\ th'[p].op = th[p].op

\* C1: of the concurrent Add calls for a key that was absent and that no Set,
\* Delete, DeleteExpired or Load touched since, exactly one succeeds and all the
\* others fail; the table keeps the entry of the call that succeeded.
C1_AddRaceOneWinner ==
    /\ \A k \in Keys :
          race[k].valid =>
             /\ race[k].ok <= 1
             /\ race[k].err > 0 => race[k].ok = 1
             /\ race[k].ok = 1 =>
                   k \in DOMAIN items /\ items[k].Object = ValueOf(race[k].by)

\* two callers returned from Add of the same untouched key, one with success
C1_Witness ==
    \E p, q \in Threads :
       /\ p # q
       /\ th[p].pc = "idle" /\ th[p].op = "Add" /\ th[p].ok
       /\ th[q].pc = "idle" /\ th[q].op = "Add" /\ ~th[q].ok
       /\ th[p].key = th[q].key
       /\ race[th[p].key] = [valid |-> TRUE, ok |-> 1, err |-> 1, by |-> p]

\* C2: Add fails exactly when the key is in the table, expired or not, and a
\* failing Add leaves the table as it was; Add stores only under an absent key.
C2_AddFailsOnPresentKey ==
    [][\A p \in Threads :
          /\ (th[p].pc = "Add_cs" /\ th'[p].pc # "Add_cs" /\ th'[p].op = "Add") =>
                IF th[p].key \in DOMAIN items
                THEN th'[p].pc = "idle" /\ ~th'[p].ok /\ items' = items
                ELSE th'[p].pc = "Add_set" /\ items' = items
          /\ (th[p].pc = "Add_set" /\ th'[p].pc # "Add_set" /\ th'[p].op = "Add") =>
                /\ th[p].key \notin DOMAIN items
                /\ th'[p].pc = "idle" /\ th'[p].ok
                /\ th[p].key \in DOMAIN items']_vars

\* an Add returned the error for a key whose entry is in the table and expired
C2_Witness ==
    \E p \in Threads :
       /\ th[p].pc = "idle" /\ th[p].op = "Add" /\ ~th[p].ok
       /\ th[p].key \in DOMAIN items
       /\ ItemExpired(items[th[p].key], clock)
       /\ items[th[p].key].Object # th[p].val

\* C3: Get reports not-found exactly when the key is absent or its entry is
\* expired in the sense of Item.Expired (never for expiresAt = 0, otherwise
\* now > expiresAt), and a found value is the stored one.
C3_GetFollowsItemExpired ==
    [][\A p \in Threads :
          Returns(p, "Get_cs") =>
             LET k == th[p].key
                 gone == k \notin DOMAIN items \/ ItemExpired(items[k], clock)
             IN  /\ th'[p].ok = ~gone
                 /\ th'[p].ok => th'[p].val = items[k].Object]_vars

\* the instant after which the entry last written under k by Set or Add is expired
\* has passed at instant now (the sum is the mathematical one)
Due(k, now) == wr[k].set /\ wr[k].d > 0 /\ now > wr[k].t + wr[k].d

C5_SetUpserts ==
    [][\A p \in Threads :
          Returns(p, "Set_cs") =>
             LET k == th[p].key
             IN  /\ DOMAIN items' = DOMAIN items \cup {k}
                 /\ items'[k] = Item(th[p].value, th[p].exp)
                 /\ \A x \in DOMAIN items \ {k} : items'[x] = items[x]
                 /\ th[p].now = clock =>
                       GetResult(items', k, clock) = [found |-> TRUE, value |-> th[p].value]]_vars

\* a Set returned and the table holds its value under a key another caller wrote too
C5_Witness ==
    \E p, q \in Threads :
       /\ p # q
       /\ th[p].pc = "idle" /\ th[p].op = "Set"
       /\ th[q].pc = "idle" /\ th[q].op \in {"Set", "Add"} /\ th[q].ok
       /\ th[p].key = th[q].key
       /\ th[p].key \in DOMAIN items
       /\ items[th[p].key].Object = ValueOf(p)

\* C6: Delete returns whether the key was in the table when it held the lock and
\* leaves the key absent, so that Get reports (nil, not found); every other key
\* keeps its entry; an absent key becomes present only by a store of Set or Add.
C6_Delete ==
    [][/\ \A p \in Threads :
             Returns(p, "Delete_cs") =>
                LET k == th[p].key
                IN  /\ th'[p].ok = (k \in DOMAIN items)
                    /\ DOMAIN items' = DOMAIN items \ {k}
                    /\ \A x \in DOMAIN items' : items'[x] = items[x]
                    /\ GetResult(items', k, clock) = [found |-> FALSE, value |-> Nil]
       /\ \A k \in DOMAIN items' \ DOMAIN items :
             \E p \in Threads :
                /\ th[p].key = k
                /\ Returns(p, "Set_cs") \/ Returns(p, "Add_set")]_vars

\* a Delete returned true and its key is not in the table
C6_Witness ==
    \E p \in Threads :
       /\ th[p].pc = "idle" /\ th[p].op = "Delete" /\ th[p].ok
       /\ th[p].key \notin DOMAIN items

\* C7: ItemCount returns the number of keys of the table, expired ones included;
\* a key leaves the table only in the step of a Delete or of a DeleteExpired
\* (a caller's or the janitor's).
C7_ItemCountRaw ==
    [][/\ \A p \in Threads :
             Returns(p, "Count_cs") =>
                th'[p].n = Cardinality(DOMAIN items)
       /\ ~(DOMAIN items \subseteq DOMAIN items') =>
             \/ \E p \in Threads :
                   Returns(p, "Delete_cs") \/ Returns(p, "Sweep_cs")
             \/ jan.pc = "cs" /\ jan'.pc = "wait"]_vars

\* ItemCount counted an entry that had expired before the call
C7_Witness ==
    \E p \in Threads :
       /\ th[p].pc = "idle" /\ th[p].op = "ItemCount" /\ th[p].n = 1
       /\ \E k \in DOMAIN items : wr[k].t < th[p].now /\ Due(k, th[p].now)

\* C8: Items returns a copy of exactly the entries that are not expired, in the
\* sense of Item.Expired, at the instant the call reads, swept or not; the copy a
\* caller holds does not change when the table is changed afterwards.
C8_ItemsSnapshot ==
    [][\A p \in Threads :
          /\ Returns(p, "Items_cs") =>
                th'[p].m = [k \in {x \in DOMAIN items : ~ItemExpired(items[x], clock)}
                               |-> items[k]]
          /\ (th[p].pc = "idle" /\ th[p].op = "Items" /\ th'[p].pc = "idle"
                 /\ th'[p].op = "Items") =>
                th'[p].m = th[p].m]_vars

\* C9: the merge of a successful LoadFile stores every decoded entry of the file
\* under its key, over any entry the table had there, and leaves every key that
\* is not in the file with its entry; no key leaves the table.
C9_LoadMerges ==
    [][\A p \in Threads :
          Returns(p, "Load_cs") =>
             /\ th'[p].ok
             /\ DOMAIN items' = DOMAIN items \cup DOMAIN th[p].m
             /\ \A k \in DOMAIN th[p].m : items'[k] = th[p].m[k]
             /\ \A k \in DOMAIN items \ DOMAIN th[p].m : items'[k] = items[k]]_vars

\* a LoadFile put the file's entry over the one a Set had stored, and kept a key
\* that is not in the file
C9_Witness ==
    \E p, q \in Threads :
       /\ p # q
       /\ th[p].pc = "idle" /\ th[p].op = "LoadFile" /\ th[p].ok
       /\ th[q].pc = "idle" /\ th[q].op = "Set"
       /\ th[q].key \in DOMAIN th[p].m
       /\ items[th[q].key] = th[p].m[th[q].key]
       /\ items[th[q].key].Object # ValueOf(q)
       /\ DOMAIN items \ DOMAIN th[p].m # {}

\* C10: what LoadFile decodes from the file is the snapshot Items took for the
\* Save that wrote it: the same keys, values and absolute expirations; merged into
\* an empty table it becomes the table; the snapshot holds no entry that was
\* expired, in the sense of Item.Expired, at the instant it was taken.
C10_SaveLoadRoundTrip ==
    [][\A p \in Threads :
          /\ (th[p].pc = "idle" /\ th'[p].pc = "Load_lock") => th'[p].m = saved.m
          /\ (Returns(p, "Load_cs") /\ items = EmptyMap) =>
                items' = th[p].m
          /\ Returns(p, "Save_enc") =>
                /\ saved'.m = th[p].m
                /\ \A k \in DOMAIN saved'.m : ~ItemExpired(saved'.m[k], saved'.at)]_vars

\* the goroutines that hold the mutex for writing the table, and for reading it
WritePcs == {"Set_cs", "Add_cs", "Add_set", "Delete_cs", "Sweep_cs", "Load_cs"}
ReadPcs == {"Get_cs", "Items_cs", "Count_cs", "Save_items", "Save_enc"}
Writers ==
    {p \in Threads : th[p].pc \in WritePcs} \cup (IF jan.pc = "cs" THEN {"janitor"} ELSE {})
Readers == {p \in Threads : th[p].pc \in ReadPcs}

StatedExpiry(duration, de, now) ==
    LET d == IF duration = DefaultExpiration THEN de ELSE duration
    IN  IF d = NoExpiration THEN 0 ELSE Wrap(now + d)

\* C12: the entry stored by Set and by Add carries the expiration the description
\* gives: 0 stands for the default TTL, -1 gives the never-expire mark, every other
\* duration gives now + duration; the default TTL never changes.
C12_ExpiryComputation ==
    [][/\ \A p \in Threads :
             /\ Returns(p, "Set_cs") =>
                   items'[th[p].key].Expiration =
                      StatedExpiry(th[p].duration, defaultExpiration, th[p].now)
             /\ Returns(p, "Add_set") =>
                   items'[th[p].key].Expiration =
                      StatedExpiry(th[p].duration, defaultExpiration, clock)
       /\ defaultExpiration' = defaultExpiration]_vars

\* the table the description gives after a scan of tbl that started at instant
\* start: without the entries whose expiration is not the never-expire mark and
\* lies before start
StatedSweep(tbl, start) ==
    [k \in {x \in DOMAIN tbl : ~(tbl[x].Expiration # 0 /\ tbl[x].Expiration < start)}
        |-> tbl[k]]

\* no entry the scan took out of tbl would be found by a Get at the scan's start
\* instant or at an earlier one
SweptNotFound(tbl, new, start) ==
    \A k \in DOMAIN tbl \ DOMAIN new :
       \A t \in 1 .. start : ~GetResult(tbl, k, t).found

\* C13: the scan of DeleteExpired, a caller's or the janitor's, removes exactly the
\* entries with a non-sentinel expiration before the instant the call started at
\* and leaves every other entry as it was; no removed entry would be found by a
\* Get at that instant or an earlier one.
C13_DeleteExpiredExact ==
    [][/\ \A p \in Threads :
             Returns(p, "Sweep_cs") =>
                /\ items' = StatedSweep(items, th[p].now)
                /\ SweptNotFound(items, items', th[p].now)
       /\ (jan.pc = "cs" /\ jan'.pc = "wait") =>
             /\ items' = StatedSweep(items, jan.now)
             /\ SweptNotFound(items, items', jan.now)]_vars

\* C14: the janitor leaves its loop only by receiving the stop signal while it
\* waits in the select, also when a tick could be taken instead; the receipt
\* changes no entry (no last sweep); once the sender has returned the janitor is
\* stopped, and a stopped janitor stays stopped and never sweeps again.
C14_JanitorStop ==
    [][/\ jan.pc = "stopped" => jan' = jan
       /\ (jan.pc # "stopped" /\ jan'.pc = "stopped") =>
             /\ jan.pc = "wait" /\ stop = "sending" /\ stop' = "returned"
             /\ items' = items
       /\ stop' = "returned" => jan'.pc = "stopped"
       /\ (jan.pc = "stopped" /\ ~(DOMAIN items \subseteq DOMAIN items')) =>
             \E p \in Threads : Returns(p, "Delete_cs") \/ Returns(p, "Sweep_cs")]_vars

\* the janitor was stopped and an entry that a tick would have swept is in the table
C14_Witness ==
    /\ jan.pc = "stopped" /\ stop = "returned"
    /\ \E k \in DOMAIN items : GetPast(items[k], clock)

\* C15: with a janitor that runs, every entry in the table that is expired in the
\* sense of Item.Expired is in the end out of the table or replaced by an
\* unexpired one, while the callers go on calling; without a janitor a key leaves
\* the table only in a caller's Delete or DeleteExpired.
C15_JanitorRemovesExpired ==
    /\ \A k \in Keys :
          (jan.pc \in {"wait", "lock", "cs"} /\ k \in DOMAIN items
              /\ ItemExpired(items[k], clock))
            ~> (k \notin DOMAIN items \/ ~ItemExpired(items[k], clock))
    /\ [][(jan.pc = "none" /\ ~(DOMAIN items \subseteq DOMAIN items')) =>
             \E p \in Threads : Returns(p, "Delete_cs") \/ Returns(p, "Sweep_cs")]_vars

\* C16: once the owner has dropped a Storage that was built with a janitor, the
\* janitor is in the end stopped.
C16_JanitorTeardown ==
    (~ref.held /\ jan.pc # "none") ~> (jan.pc = "stopped")

\* a complete gob stream: the header and whole entries
WholeStream(bytes) ==
    /\ Len(bytes) >= 1
    /\ bytes[1] = GobHeader
    /\ \A i \in 2 .. Len(bytes) : Len(bytes[i]) \in {2, 3}

\* C17: a call of LoadFile for a file that is absent, empty, foreign or cut inside
\* an entry returns an error at once and leaves the table as it was; the call goes
\* on to the merge only for a complete stream, so that no entry decoded before a
\* failure reaches the table.
C17_LoadFailure ==
    [][\A p \in Threads :
          (/\ nops' < nops
           /\ th[p].pc = "idle" /\ th'[p].op = "LoadFile"
           /\ \A q \in Threads \ {p} : th'[q] = th[q]) =>
             IF file.exists /\ WholeStream(file.bytes)
             THEN th'[p].pc = "Load_lock" /\ items' = items
             ELSE th'[p].pc = "idle" /\ ~th'[p].ok /\ items' = items]_vars

\* a LoadFile of the file cut inside an entry returned an error; the table holds
\* what a Set stored and not the entry the file begins with
C17_Witness ==
    \E p \in Threads :
       /\ th[p].pc = "idle" /\ th[p].op = "LoadFile" /\ ~th[p].ok
       /\ file = CutFile
       /\ "b" \in DOMAIN items /\ "a" \notin DOMAIN items

\* C18: the copy SaveFile takes is the set of the entries of the table that are
\* not expired, in the sense of Item.Expired, at the one instant it is taken; no
\* step of another goroutine changes the copy afterwards; and the stream written
\* decodes to exactly that copy.
C18_SaveOneInstant ==
    [][\A p \in Threads :
          /\ (th[p].pc = "Save_items" /\ th'[p].pc = "Save_rlock2") =>
                th'[p].m = [k \in {x \in DOMAIN items : ~ItemExpired(items[x], clock)}
                               |-> items[k]]
          /\ (th[p].pc \in {"Save_rlock2", "Save_enc"} /\ th'[p].op = "SaveFile"
                 /\ th'[p].pc # "idle") =>
                th'[p].m = th[p].m
          /\ Returns(p, "Save_enc") =>
                /\ th'[p].ok
                /\ file'.exists /\ ~DecodeFails(file'.bytes)
                /\ Decode(file'.bytes) = th[p].m]_vars

\* C19: a store of Set or Add with a positive effective duration d leaves under
\* its key the expiration now + d, the sum of the integers, which is after now;
\* and no entry of the table ever holds a negative expiration.
C19_NoWrapAround ==
    [][/\ \A p \in Threads :
             LET d == Effective(th[p].duration, defaultExpiration)
             IN  /\ (Returns(p, "Set_cs") /\ d > 0) =>
                       /\ items'[th[p].key].Expiration = th[p].now + d
                       /\ items'[th[p].key].Expiration > th[p].now
                 /\ (Returns(p, "Add_set") /\ d > 0) =>
                       /\ items'[th[p].key].Expiration = clock + d
                       /\ items'[th[p].key].Expiration > clock
       /\ \A k \in DOMAIN items' : items'[k].Expiration >= 0]_vars

\* the mutex is held only by goroutines that are inside a section
NoOrphanLock ==
    /\ mu.w \in Threads => th[mu.w].pc \in WritePcs
    /\ mu.w = "janitor" => jan.pc = "cs"
    /\ \A r \in mu.r : th[r].pc \in ReadPcs

\* C20: no goroutine that has left its section, on whatever path, holds the mutex,
\* and under fair scheduling every call that was started returns and every sweep
\* of the janitor ends, with all operations and the janitor running.
C20_DeadlockFree ==
    /\ []NoOrphanLock
    /\ \A p \in Threads : (th[p].pc # "idle") ~> (th[p].pc = "idle")
    /\ (jan.pc \in {"lock", "cs"}) ~> (jan.pc = "wait")

\* a caller and the janitor both wait for the write lock while the other caller reads
C20_Witness ==
    /\ jan.pc = "lock"
    /\ \E p, q \in Threads :
          th[p].pc \in {"Set_lock", "Sweep_lock", "Load_lock"} /\ th[q].pc \in ReadPcs
====
